---- MODULE Spec2Model ----
(***************************************************************************)
(* State machine of the ingestion engine of solana-data-aggregator:        *)
(* TransactionFetcher::run (src/src/fetcher.rs) with its slot processor    *)
(* fetch_range, driven by the root-slot notification stream, the RPC       *)
(* provider, the "transactions" table and the shutdown broadcast channel   *)
(* created in main (src/src/main.rs).                                      *)
(*                                                                         *)
(* One action is one resumption of the task between two await points.      *)
(* What the external collaborators answer (the notified slot, the block,   *)
(* the success of a call) is chosen with \E from small sets.               *)
(***************************************************************************)
EXTENDS Bags, FiniteSets, Integers, Sequences, TLC

\* ------------------------------------------------------------- bounds
\* Raw root slots announced by the notification stream are 0..MaxSlot.
MaxSlot == 3
\* Notifications taken from the stream in one run (the cold-start one included).
MaxNotifs == 3
\* Block fetches issued in one run.
MaxAttempts == 2
\* Signatures in one block.
MaxSigs == 2

\* ------------------------------------------------------------- Option<T>
None == <<>>
Some(v) == <<v>>
IsSome(o) == o # <<>>
Unwrap(o) == o[1]

\* ------------------------------------------------------------- configuration
\* --root-lag and --tx-limit are free command line values (u64, usize).
RootLags == 0..1
TxLimits == 0..2

\* ------------------------------------------------------------- provider data
\* Signature strings the provider may list; "x" is not a base58 signature.
ValidSignatures == {"a", "b"}
Signatures == ValidSignatures \cup {"x"}

\* Signature::from_str: Ok(decoded) for a well formed string, Err otherwise.
SignatureFromStr(s) == IF s \in ValidSignatures THEN Some(<<"Signature", s>>) ELSE None

\* block.signatures: Option<Vec<String>>. A block lists a signature once; the
\* well formed ones are named in their order of appearance ("b" after "a").
SignatureLists ==
    {l \in UNION {[1..n -> Signatures] : n \in 0..MaxSigs} :
        /\ \A i, j \in 1..Len(l) : l[i] = l[j] => i = j
        /\ \A j \in 1..Len(l) : l[j] = "b" => \E i \in 1..(j - 1) : l[i] = "a"}
\* block.blockhash and block.block_time: Option<i64> are those of the finalized
\* block of the slot, the same at every fetch; the blocks of even slots carry
\* no block time.
BlockhashOf(s) == <<"hash", s>>
BlockTimeOf(s) == IF s % 2 = 0 THEN None ELSE Some(1000 + s)

\* The Ok values of get_block_with_config for slot s.
Blocks(s) ==
    [blockhash : {BlockhashOf(s)},
     block_time : {BlockTimeOf(s)},
     signatures : {None} \cup {Some(l) : l \in SignatureLists}]

NoBlock == [blockhash |-> None, block_time |-> None, signatures |-> None]

\* ------------------------------------------------------------- records
\* struct Transaction (data, the provider's payload, is carried verbatim and
\* is identified here with the signature it was fetched for).
Transaction(signature, s, block_hash, timestamp) ==
    [signature |-> signature, slot |-> s, block_hash |-> block_hash, timestamp |-> timestamp]

\* An absent block time is stored as -1.
UnwrapOrDefault_Missing(o) == IF IsSome(o) THEN Unwrap(o) ELSE -1

\* Option<i64>::unwrap_or_default
UnwrapOrDefault(o) == IF IsSome(o) THEN Unwrap(o) ELSE 0

\* Tables a run may start with: empty, or records left by an earlier run.
OldRecord(s) == Transaction("a", s, BlockhashOf(s), UnwrapOrDefault(BlockTimeOf(s)))
InitialTables ==
    {SetToBag({OldRecord(s) : s \in T}) : T \in {{}, {1, 0}}}

VARIABLES
    pc,             \* where run is suspended
    root_lag,       \* self.root_lag
    tx_limit,       \* self.tx_limit
    transactions,   \* the "transactions" table, a bag of Transaction records
    next_slot,      \* let mut next_slot (None before it is bound)
    adjusted_slot,  \* adjusted_slot of the notification being handled
    slot,           \* loop variable of fetch_range
    to_slot,        \* to_slot of fetch_range
    block,          \* the block of the slot being processed
    fetch_futures,  \* the units handed to join_all, in signature order
    result,         \* the value run returned (None while it runs)
    stream_ended,   \* the notification stream yields None from now on
    channel,        \* the fetcher's broadcast receiver
    notifs,         \* notifications taken from the stream so far
    unsubscribed,   \* calls of unsubscribe()
    server,         \* the receiver moved into server::run's graceful shutdown
    \* history, read by the properties only
    latest,         \* what fetch_latest_slot_from_db returned
    sent_in_range,  \* the shutdown signal was sent while fetch_range was running
    first_slot,     \* the raw slot that seeded a cold start
    raw_slot,       \* raw slot of the last notification handled by the loop
    cursor_before,  \* next_slot when that notification arrived
    mark,           \* Len(attempts) when that notification arrived
    attempts,       \* the slot of every get_block_with_config that returned
    last_block,     \* how the last of them returned, for the notification handled
    cause           \* which select! branch left the loop

vars == <<pc, root_lag, tx_limit, transactions, next_slot, adjusted_slot, slot, to_slot,
          block, fetch_futures, result, stream_ended, channel, notifs, unsubscribed,
          server, latest, sent_in_range, first_slot, raw_slot, cursor_before, mark, attempts, last_block, cause>>

config == <<root_lag, tx_limit>>
range == <<adjusted_slot, slot, to_slot>>
history == <<latest, sent_in_range, first_slot, raw_slot, cursor_before, mark, last_block, cause>>

\* ------------------------------------------------------------- pure parts
\* u64::saturating_sub
SaturatingSub(a, b) == IF a >= b THEN a - b ELSE 0

\* SELECT slot FROM transactions ORDER BY slot DESC LIMIT 1
LatestSlot(table) ==
    LET slots == {r.slot : r \in BagToSet(table)}
    IN  IF slots = {} THEN None
        ELSE Some(CHOOSE m \in slots : \A s \in slots : s <= m)

\* The last n signatures are kept instead of the first n.
Take_Last(list, n) ==
    SubSeq(list, IF Len(list) < n THEN 1 ELSE Len(list) - n + 1, Len(list))

\* signatures.into_iter().take(self.tx_limit)
Take(list, n) == SubSeq(list, 1, IF Len(list) < n THEN Len(list) ELSE n)

\* A unit of join_all after its first poll: the signature is parsed and, when
\* it is well formed, the detail request is in flight.
FirstPoll(signature) ==
    [signature |-> signature,
     st |-> IF IsSome(SignatureFromStr(signature)) THEN "get_transaction" ELSE "invalid"]

Pending == {"get_transaction", "create"}
AllDone(units) == \A i \in 1..Len(units) : units[i].st \notin Pending

Init ==
    /\ pc = "subscribe"
    /\ root_lag \in RootLags
    /\ tx_limit \in TxLimits
    /\ transactions \in InitialTables
    /\ next_slot = None
    /\ adjusted_slot = None
    /\ slot = None
    /\ to_slot = None
    /\ block = NoBlock
    /\ fetch_futures = <<>>
    /\ result = None
    /\ stream_ended = FALSE
    /\ channel = "open"
    /\ notifs = 0
    /\ unsubscribed = 0
    /\ server = "open"
    /\ latest = None
    /\ sent_in_range = FALSE
    /\ first_slot = None
    /\ raw_slot = None
    /\ cursor_before = None
    /\ mark = 0
    /\ attempts = <<>>
    /\ last_block = "none"
    /\ cause = "none"


\* ------------------------------------------------------------- run: setup
\* self.ws.root_subscribe().await? : a failed subscription is returned at once.
Subscribe ==
    /\ pc = "subscribe"
    /\ \/ pc' = "recover" /\ UNCHANGED result
       \/ pc' = "stopped" /\ result' = Some("Err(PubsubClient)")
    /\ UNCHANGED <<config, server, transactions, next_slot, range, block, fetch_futures,
                   stream_ended, channel, notifs, unsubscribed, history, attempts>>

\* What fetch_latest_slot_from_db can return on this table: the greatest slot,
\* or None when the table is empty, the query fails or its row does not decode.
LatestSlotAnswers(table) == {LatestSlot(table), None}

\* The cursor restarts on the recovered slot itself.
SeedFromDb_SameSlot(m) == m

\* Some(slot) => slot + 1
SeedFromDb(m) == m + 1

\* A failed maximum-slot query (no answer although the table holds records) is
\* returned with `?` and ends run with the store's error.
Recover_FailsOnError ==
    /\ pc = "recover"
    /\ \E answer \in LatestSlotAnswers(transactions) :
        /\ latest' = answer
        /\ IF IsSome(answer)
           THEN next_slot' = Some(SeedFromDb(Unwrap(answer))) /\ pc' = "select"
                /\ UNCHANGED result
           ELSE IF IsSome(LatestSlot(transactions))
           THEN next_slot' = next_slot /\ pc' = "stopped"
                /\ result' = Some("Err(Surrealdb)")
           ELSE next_slot' = next_slot /\ pc' = "first" /\ UNCHANGED result
    /\ UNCHANGED <<config, server, transactions, range, block, fetch_futures,
                   stream_ended, channel, notifs, unsubscribed, sent_in_range,
                   first_slot, raw_slot, cursor_before, mark, attempts, last_block,
                   cause>>

\* let mut next_slot = match self.fetch_latest_slot_from_db().await { ... }
Recover ==
    /\ pc = "recover"
    /\ \E answer \in LatestSlotAnswers(transactions) :
        /\ latest' = answer
        /\ IF IsSome(answer)
           THEN next_slot' = Some(SeedFromDb(Unwrap(answer))) /\ pc' = "select"
           ELSE next_slot' = next_slot /\ pc' = "first"
    /\ UNCHANGED <<config, server, transactions, range, block, fetch_futures, result,
                   stream_ended, channel, notifs, unsubscribed, sent_in_range,
                   first_slot, raw_slot, cursor_before, mark, attempts, last_block,
                   cause>>

\* None => stream.next().await yields Some(slot): the cursor is that slot.
FirstNotification ==
    /\ pc = "first"
    /\ ~stream_ended
    /\ notifs < MaxNotifs
    /\ \E s \in 0..MaxSlot :
        /\ next_slot' = Some(s)
        /\ first_slot' = Some(s)
    /\ notifs' = notifs + 1
    /\ pc' = "select"
    /\ UNCHANGED <<config, server, transactions, range, block, fetch_futures, result,
                   stream_ended, channel, unsubscribed, latest, sent_in_range, raw_slot,
                   cursor_before, mark, attempts, last_block, cause>>

\* None => stream.next().await yields None: .ok_or(FetchFailed)? returns.
FirstNotificationMissing ==
    /\ pc = "first"
    /\ stream_ended
    /\ result' = Some("Err(FetchFailed)")
    /\ pc' = "stopped"
    /\ UNCHANGED <<config, server, transactions, next_slot, range, block, fetch_futures,
                   stream_ended, channel, notifs, unsubscribed, history, attempts>>

\* ------------------------------------------------------------- run: the loop
\* let adjusted_slot = slot.saturating_sub(self.root_lag)
AdjustedSlot(s, lag) == SaturatingSub(s, lag)

\* The cursor is left on the adjusted slot.
NextCursor_NoAdvance(a) == a

\* next_slot = adjusted_slot + 1
NextCursor(a) == a + 1

\* Some(slot) = stream.next() => { ... }: a stale notification is handled in
\* one step, a forward one enters fetch_range(next_slot, adjusted_slot).
Notification ==
    /\ pc = "select"
    /\ ~stream_ended
    /\ notifs < MaxNotifs
    /\ \E s \in 0..MaxSlot :
        LET a == AdjustedSlot(s, root_lag)
            c == Unwrap(next_slot)
        IN  /\ a >= c => Len(attempts) + (a - c + 1) <= MaxAttempts
            /\ raw_slot' = Some(s)
            /\ adjusted_slot' = Some(a)
            /\ IF a >= c
               THEN /\ slot' = Some(c)
                    /\ to_slot' = Some(a)
                    /\ pc' = "get_block"
                    /\ UNCHANGED next_slot
               ELSE /\ next_slot' = Some(NextCursor(a))
                    /\ pc' = "select"
                    /\ UNCHANGED <<slot, to_slot>>
    /\ notifs' = notifs + 1
    /\ cursor_before' = next_slot
    /\ mark' = Len(attempts)
    /\ last_block' = "none"
    /\ UNCHANGED <<config, server, transactions, block, fetch_futures, result, stream_ended,
                   channel, unsubscribed, latest, sent_in_range, first_slot, attempts, cause>>

\* The range is given up between two slots once a shutdown signal is pending.
NextIteration_Cancellable ==
    IF Unwrap(slot) < Unwrap(to_slot) /\ channel # "signal"
    THEN /\ slot' = Some(Unwrap(slot) + 1)
         /\ pc' = "get_block"
         /\ UNCHANGED <<next_slot, adjusted_slot, to_slot>>
    ELSE /\ next_slot' = Some(NextCursor(Unwrap(slot)))
         /\ pc' = "select"
         /\ slot' = None
         /\ to_slot' = None
         /\ UNCHANGED adjusted_slot

\* The end of one iteration of `for slot in from_slot..=to_slot`; after the
\* last one fetch_range returns and the arm sets next_slot = adjusted_slot + 1.
NextIteration ==
    IF Unwrap(slot) < Unwrap(to_slot)
    THEN /\ slot' = Some(Unwrap(slot) + 1)
         /\ pc' = "get_block"
         /\ UNCHANGED <<next_slot, adjusted_slot, to_slot>>
    ELSE /\ next_slot' = Some(NextCursor(Unwrap(adjusted_slot)))
         /\ pc' = "select"
         /\ slot' = None
         /\ to_slot' = None
         /\ UNCHANGED adjusted_slot

\* The first failed block fetch ends fetch_range.
GetBlockErr_Aborts ==
    /\ pc = "get_block"
    /\ attempts' = Append(attempts, Unwrap(slot))
    /\ last_block' = "Err"
    /\ next_slot' = Some(NextCursor(Unwrap(adjusted_slot)))
    /\ pc' = "select"
    /\ slot' = None
    /\ to_slot' = None
    /\ UNCHANGED <<config, server, transactions, adjusted_slot, block, fetch_futures, result,
                   stream_ended, channel, notifs, unsubscribed, latest, sent_in_range, first_slot,
                   raw_slot, cursor_before, mark, cause>>

\* get_block_with_config(slot) => Err(e): logged, the slot is skipped.
GetBlockErr ==
    /\ pc = "get_block"
    /\ attempts' = Append(attempts, Unwrap(slot))
    /\ last_block' = "Err"
    /\ NextIteration
    /\ UNCHANGED <<config, server, transactions, block, fetch_futures, result, stream_ended,
                   channel, notifs, unsubscribed, latest, sent_in_range, first_slot, raw_slot,
                   cursor_before, mark, cause>>

\* get_block_with_config(slot) => Ok(block): one unit per retained signature,
\* each polled once by join_all; without a unit the iteration is over.
GetBlockOk ==
    /\ pc = "get_block"
    /\ attempts' = Append(attempts, Unwrap(slot))
    /\ last_block' = "Ok"
    /\ \E b \in Blocks(Unwrap(slot)) :
        LET retained == IF IsSome(b.signatures)
                        THEN Take(Unwrap(b.signatures), tx_limit) ELSE <<>>
        IN  IF retained = <<>>
            THEN /\ NextIteration
                 /\ UNCHANGED <<block, fetch_futures>>
            ELSE /\ block' = b
                 /\ fetch_futures' = [i \in 1..Len(retained) |-> FirstPoll(retained[i])]
                 /\ pc' = "join_all"
                 /\ UNCHANGED <<next_slot, range>>
    /\ UNCHANGED <<config, server, transactions, result, stream_ended, channel, notifs,
                   unsubscribed, latest, sent_in_range, first_slot, raw_slot, cursor_before, mark,
                   cause>>

\* A failed detail fetch ends the units still pending with it (try_join_all).
GetTransactionDone_Cancels(i) ==
    /\ pc = "join_all"
    /\ fetch_futures[i].st = "get_transaction"
    /\ \/ fetch_futures' = [fetch_futures EXCEPT ![i].st = "create"]
       \/ fetch_futures' =
            [j \in DOMAIN fetch_futures |->
                IF j = i \/ fetch_futures[j].st \in Pending
                THEN [fetch_futures[j] EXCEPT !.st = "fetch_failed"]
                ELSE fetch_futures[j]]
    /\ UNCHANGED <<pc, config, server, transactions, next_slot, range, block, result,
                   stream_ended, channel, notifs, unsubscribed, history, attempts>>

\* get_transaction_with_config(&s) of unit i returns: on Ok the record is
\* assembled and its insert is issued, on Err the unit ends.
GetTransactionDone(i) ==
    /\ pc = "join_all"
    /\ fetch_futures[i].st = "get_transaction"
    /\ \E st \in {"create", "fetch_failed"} :
        fetch_futures' = [fetch_futures EXCEPT ![i].st = st]
    /\ UNCHANGED <<pc, config, server, transactions, next_slot, range, block, result,
                   stream_ended, channel, notifs, unsubscribed, history, attempts>>

\* A rejected insert is returned with `?` and ends run with the store's error.
CreateDone_Propagates(i) ==
    /\ pc = "join_all"
    /\ fetch_futures[i].st = "create"
    /\ \/ /\ transactions' = transactions (+) SetToBag({
                Transaction(fetch_futures[i].signature, Unwrap(slot), block.blockhash,
                            UnwrapOrDefault(block.block_time))})
          /\ fetch_futures' = [fetch_futures EXCEPT ![i].st = "stored"]
          /\ UNCHANGED <<pc, result>>
       \/ /\ fetch_futures' = [fetch_futures EXCEPT ![i].st = "store_failed"]
          /\ result' = Some("Err(Surrealdb)")
          /\ pc' = "stopped"
          /\ UNCHANGED transactions
    /\ UNCHANGED <<config, server, next_slot, range, block, stream_ended, channel,
                   notifs, unsubscribed, history, attempts>>

\* db.create("transactions").content(content) of unit i returns.
CreateDone(i) ==
    /\ pc = "join_all"
    /\ fetch_futures[i].st = "create"
    /\ \/ /\ transactions' = transactions (+) SetToBag({
                Transaction(fetch_futures[i].signature, Unwrap(slot), block.blockhash,
                            UnwrapOrDefault(block.block_time))})
          /\ fetch_futures' = [fetch_futures EXCEPT ![i].st = "stored"]
       \/ /\ fetch_futures' = [fetch_futures EXCEPT ![i].st = "store_failed"]
          /\ UNCHANGED transactions
    /\ UNCHANGED <<pc, config, server, next_slot, range, block, result, stream_ended, channel,
                   notifs, unsubscribed, history, attempts>>

\* The join returns as soon as one unit has ended (select_all); the units still
\* pending stay in flight.
JoinAll_FirstDone ==
    /\ pc = "join_all"
    /\ \E i \in DOMAIN fetch_futures : fetch_futures[i].st \notin Pending
    /\ fetch_futures' = SelectSeq(fetch_futures, LAMBDA u : u.st \in Pending)
    /\ block' = NoBlock
    /\ NextIteration
    /\ UNCHANGED <<config, server, transactions, result, stream_ended, channel, notifs,
                   unsubscribed, history, attempts>>

\* join_all(fetch_futures).await returns once every unit has ended.
JoinAll ==
    /\ pc = "join_all"
    /\ AllDone(fetch_futures)
    /\ fetch_futures' = <<>>
    /\ block' = NoBlock
    /\ NextIteration
    /\ UNCHANGED <<config, server, transactions, result, stream_ended, channel, notifs,
                   unsubscribed, history, attempts>>

\* The loop is left and run returns without calling unsubscribe().
ShutdownReceived_NoUnsubscribe ==
    /\ pc = "select"
    /\ channel = "signal"
    /\ channel' = "received"
    /\ cause' = "shutdown"
    /\ result' = Some("Ok(())")
    /\ pc' = "stopped"
    /\ UNCHANGED <<config, server, transactions, next_slot, range, block, fetch_futures,
                   stream_ended, notifs, unsubscribed, latest, sent_in_range, first_slot, raw_slot,
                   cursor_before, mark, attempts, last_block>>

\* Ok(_) = self.shutdown.recv() => break, then unsubscribe() is called.
ShutdownReceived ==
    /\ pc = "select"
    /\ channel = "signal"
    /\ channel' = "received"
    /\ cause' = "shutdown"
    /\ unsubscribed' = unsubscribed + 1
    /\ pc' = "unsubscribe"
    /\ UNCHANGED <<config, server, transactions, next_slot, range, block, fetch_futures, result,
                   stream_ended, notifs, latest, sent_in_range, first_slot, raw_slot, cursor_before,
                   mark, attempts, last_block>>

\* else => break, then unsubscribe() is called. select! takes else only when
\* both patterns failed: the stream with None and recv() with Err(Closed).
SelectElse ==
    /\ pc = "select"
    /\ stream_ended
    /\ channel = "closed"
    /\ cause' = "else"
    /\ unsubscribed' = unsubscribed + 1
    /\ pc' = "unsubscribe"
    /\ UNCHANGED <<config, server, transactions, next_slot, range, block, fetch_futures, result,
                   stream_ended, channel, notifs, latest, sent_in_range, first_slot, raw_slot,
                   cursor_before, mark, attempts, last_block>>

\* unsubscribe().await returns; Ok(())
Unsubscribed ==
    /\ pc = "unsubscribe"
    /\ result' = Some("Ok(())")
    /\ pc' = "stopped"
    /\ UNCHANGED <<config, server, transactions, next_slot, range, block, fetch_futures,
                   stream_ended, channel, notifs, unsubscribed, history, attempts>>

\* ------------------------------------------------------------- server
\* with_graceful_shutdown: shutdown.recv().await yields Ok(()), the server
\* stops accepting and run returns Ok(()).
ServerShutdownReceived ==
    /\ server = "signal"
    /\ server' = "received"
    /\ UNCHANGED <<pc, config, transactions, next_slot, range, block, fetch_futures,
                   result, stream_ended, channel, notifs, unsubscribed, history,
                   attempts>>

\* shutdown.recv().await yields Err(Closed): unwrap() panics.
ServerRecvClosed ==
    /\ server = "closed"
    /\ server' = "panicked"
    /\ UNCHANGED <<pc, config, transactions, next_slot, range, block, fetch_futures,
                   result, stream_ended, channel, notifs, unsubscribed, history,
                   attempts>>

\* ------------------------------------------------------------- environment
\* shutdown_tx.send(()) with a single queue: the value is for whichever
\* listener receives first (the fetcher's receiver holds it, the server's
\* stays empty).
SendShutdown_SingleConsumer ==
    /\ channel = "open"
    /\ pc \in {"first", "select", "get_block", "join_all"}
    /\ channel' = "signal"
    /\ sent_in_range' = (pc \in {"get_block", "join_all"})
    /\ UNCHANGED <<pc, config, server, transactions, next_slot, range, block,
                   fetch_futures, result, stream_ended, notifs, unsubscribed, latest,
                   first_slot, raw_slot, cursor_before, mark, attempts, last_block,
                   cause>>

\* main: shutdown_signal().await; shutdown_tx.send(()). A broadcast channel
\* hands the value to every receiver subscribed before the send: the
\* fetcher's (main.rs:85) and the server's (main.rs:92). The receivers keep
\* the value until they are polled, so a send during the setup of run is
\* taken at its first wait, and a send after run left the loop is of no
\* effect on it.
SendShutdown ==
    /\ channel = "open"
    /\ pc \in {"first", "select", "get_block", "join_all"}
    /\ channel' = "signal"
    /\ server' = "signal"
    /\ sent_in_range' = (pc \in {"get_block", "join_all"})
    /\ UNCHANGED <<pc, config, transactions, next_slot, range, block, fetch_futures,
                   result, stream_ended, notifs, unsubscribed, latest, first_slot,
                   raw_slot, cursor_before, mark, attempts, last_block, cause>>

\* The owner of the Sender handed to new() drops it with nothing sent: recv()
\* resolves to Err(Closed) from now on, for every receiver. The task can see
\* it only in select!, so the drop is taken there.
SenderDropped ==
    /\ channel = "open"
    /\ pc = "select"
    /\ channel' = "closed"
    /\ server' = "closed"
    /\ UNCHANGED <<pc, config, transactions, next_slot, range, block, fetch_futures,
                   result, stream_ended, notifs, unsubscribed, history, attempts>>

\* The transport of the subscription closes: stream.next() yields None. The
\* task can see it only where it awaits stream.next(), so it is taken there.
StreamEnds ==
    /\ pc \in {"first", "select"}
    /\ ~stream_ended
    /\ stream_ended' = TRUE
    /\ UNCHANGED <<pc, config, server, transactions, next_slot, range, block,
                   fetch_futures, result, channel, notifs, unsubscribed, history,
                   attempts>>

\* ------------------------------------------------------------- specification
Fetcher ==
    \/ Subscribe
    \/ Recover
    \/ FirstNotificationMissing
    \/ GetBlockErr
    \/ GetBlockOk
    \/ \E i \in DOMAIN fetch_futures : GetTransactionDone(i)
    \/ \E i \in DOMAIN fetch_futures : CreateDone(i)
    \/ JoinAll
    \/ ShutdownReceived
    \/ SelectElse
    \/ Unsubscribed

Next ==
    \/ Fetcher
    \/ FirstNotification
    \/ Notification
    \/ SendShutdown
    \/ SenderDropped
    \/ StreamEnds

\* run and its environment (the server takes no step).
Spec == Init /\ [][Next]_vars

\* main's join! of run with server::run: the steps of the fetcher and of its
\* environment interleaved with those of the server.
Server ==
    \/ ServerShutdownReceived
    \/ ServerRecvClosed

ProcessNext == Next \/ Server

ProcessSpec == Init /\ [][ProcessNext]_vars

\* Every call the task awaits returns and the runtime resumes the task; when
\* a notification arrives, a signal is sent or a transport closes is left to
\* the environment.
FairSpec == Spec /\ WF_vars(Fetcher)


\* ------------------------------------------------------------- properties
\* The slots c, c + 1, ..., a in increasing order.
Interval(c, a) == [i \in 1..(a - c + 1) |-> c + i - 1]

IsPrefix(s, u) == Len(s) <= Len(u) /\ SubSeq(u, 1, Len(s)) = s

\* The loop has handled a notification; S, A and C are its raw slot, its
\* adjusted slot max(S - lag, 0) and the cursor it met.
Handled == IsSome(raw_slot)
S == Unwrap(raw_slot)
A == IF S >= root_lag THEN S - root_lag ELSE 0
C == Unwrap(cursor_before)

\* The block fetches that returned since that notification arrived.
RangeAttempts == SubSeq(attempts, mark + 1, Len(attempts))

\* fetch_range is not running.
Idle == pc \in {"select", "unsubscribe", "stopped"}

\* C1. Forward gap resolution. For a notification with adjusted slot
\* A = max(S - lag, 0) that meets a cursor C <= A, the block fetches issued are
\* those of C, C + 1, ..., A, each once and in this order, none outside the
\* interval, and once they are done the cursor is A + 1.
C1_ForwardGap ==
    (Handled /\ A >= C) =>
        /\ adjusted_slot = Some(A)
        /\ IsPrefix(RangeAttempts, Interval(C, A))
        /\ pc = "get_block" => slot = Some(C + Len(RangeAttempts))
        /\ pc = "join_all" => slot = Some(C + Len(RangeAttempts) - 1)
        /\ ~Idle => to_slot = Some(A) /\ next_slot = Some(C)
        /\ Idle => /\ RangeAttempts = Interval(C, A)
                   /\ next_slot = Some(A + 1)

\* A forward notification whose range of two slots has been processed.
C1_Witness ==
    /\ Handled /\ A >= C
    /\ pc = "select"
    /\ RangeAttempts = <<C, C + 1>>
    /\ next_slot = Some(C + 2)

\* C2. Stale notification. A notification whose adjusted slot A is below the
\* cursor C issues no block fetch and no transaction fetch and leaves the
\* cursor at C.
C2_StaleKeepsCursor ==
    (Handled /\ A < C) =>
        /\ attempts = SubSeq(attempts, 1, mark)
        /\ fetch_futures = <<>>
        /\ Idle
        /\ next_slot = Some(C)

\* C3. Cold start. With no slot recovered from the table, the cursor is seeded
\* at the adjusted first observed slot max(S0 - lag, 0), and no block fetch is
\* ever issued for a slot below that seed.
ColdSeed == IF Unwrap(first_slot) >= root_lag THEN Unwrap(first_slot) - root_lag ELSE 0

C3_ColdStartSeed ==
    IsSome(first_slot) =>
        /\ (pc = "select" /\ ~Handled) => next_slot = Some(ColdSeed)
        /\ \A i \in 1..Len(attempts) : attempts[i] >= ColdSeed

\* The greatest slot of the records of a table.
MaxSlotOf(table) ==
    CHOOSE m \in {r.slot : r \in BagToSet(table)} :
        \A r \in BagToSet(table) : r.slot <= m

\* C4. Restart recovery. When the table holds records at startup and the
\* maximum-slot query answers with their maximum slot M, the cursor is M + 1
\* before any notification is handled, and the first notification with
\* adjusted slot A >= M + 1 has the block fetches of M + 1, ..., A issued.
C4_RestartRecovery ==
    /\ (pc = "select" /\ notifs = 0) =>
            /\ BagToSet(transactions) # {}
            /\ latest = Some(MaxSlotOf(transactions))
            /\ next_slot = Some(MaxSlotOf(transactions) + 1)
    /\ (IsSome(latest) /\ notifs = 1 /\ Handled) =>
            /\ C = Unwrap(latest) + 1
            /\ (A >= C /\ Idle) => RangeAttempts = Interval(Unwrap(latest) + 1, A)

\* After a recovery from a table with two records, the first notification
\* has had the two slots after the recovered maximum fetched.
C4_Witness ==
    /\ IsSome(latest) /\ notifs = 1 /\ Handled
    /\ pc = "select"
    /\ Cardinality(BagToSet(transactions)) >= 2
    /\ RangeAttempts = <<Unwrap(latest) + 1, Unwrap(latest) + 2>>


\* The shutdown signal has been sent on the channel.
ShutdownSent == channel \in {"signal", "received"}

\* C5. Stream exhaustion. Once the stream has ended while the loop waits in
\* select! and no shutdown signal is sent, the loop leaves the wait,
\* unsubscribes and stops. (Stated for runs that could still take a
\* notification, so that a wait is one of the code and not of MaxNotifs.)
C5_ExhaustionStops ==
    (pc = "select" /\ stream_ended /\ ~ShutdownSent /\ notifs < MaxNotifs)
        ~> (ShutdownSent \/ (pc = "stopped" /\ unsubscribed = 1))

\* C6. Shutdown. A shutdown signal received in select! (no fetch_range is
\* running there) takes the loop out of it: unsubscribe is called exactly once
\* and awaited, its return is the only step left and makes run return Ok(()),
\* and from the call of unsubscribe on no notification is handled, no block is
\* fetched and nothing is stored.
C6_ShutdownSafe ==
    cause = "shutdown" =>
        /\ unsubscribed = 1
        /\ pc \in {"unsubscribe", "stopped"}
        /\ fetch_futures = <<>>
        /\ pc = "unsubscribe" => result = None /\ ENABLED Unsubscribed
        /\ pc = "stopped" => result = Some("Ok(())")

C6_NothingAfterUnsubscribe ==
    unsubscribed > 0 =>
        /\ notifs' = notifs
        /\ attempts' = attempts
        /\ transactions' = transactions
        /\ next_slot' = next_slot
        /\ unsubscribed' = unsubscribed
        /\ pc' # pc => pc' = "stopped" /\ result' = Some("Ok(())")

C6_Shutdown ==
    /\ []C6_ShutdownSafe
    /\ [][C6_NothingAfterUnsubscribe]_vars

\* run has returned after a shutdown signal that followed a backfill.
C6_Witness ==
    /\ cause = "shutdown"
    /\ pc = "stopped"
    /\ unsubscribed = 1
    /\ attempts # <<>>

\* C7. Termination result. The value run returns after leaving the loop tells
\* a clean termination (shutdown signal) from an abnormal one (stream
\* exhaustion): the two never return the same value.
C7_ResultTellsCause ==
    pc = "stopped" =>
        /\ cause = "shutdown" => result = Some("Ok(())")
        /\ cause = "else" => result # Some("Ok(())")


\* C8. Slot-level failure isolation. A failed block fetch for a slot K of a
\* backfill range persists nothing for K (no unit is launched and the table is
\* not written) and does not stop the range: for K below the end of the range
\* the block fetch of K + 1 is issued next, so every slot of the range is
\* attempted whichever earlier fetches failed.
C8_AfterFailedFetch ==
    last_block = "Err" =>
        LET K == attempts[Len(attempts)]
        IN  /\ fetch_futures = <<>>
            /\ block = NoBlock
            /\ IF K < A
               THEN pc = "get_block" /\ slot = Some(K + 1) /\ to_slot = Some(A)
               ELSE Idle /\ next_slot = Some(K + 1)

C8_WholeRangeAttempted ==
    (Handled /\ A >= C /\ Idle) =>
        \A k \in C..A : \E i \in (mark + 1)..Len(attempts) : attempts[i] = k

C8_FailedFetchWritesNothing ==
    (Len(attempts') > Len(attempts) /\ last_block' = "Err") =>
        /\ transactions' = transactions
        /\ fetch_futures' = <<>>

C8_SlotFailureIsolated ==
    /\ []C8_AfterFailedFetch
    /\ []C8_WholeRangeAttempted
    /\ [][C8_FailedFetchWritesNothing]_vars

\* The block fetch of a slot has failed and the fetch of the next slot of the
\* range is in flight.
C8_Witness ==
    /\ last_block = "Err"
    /\ pc = "get_block"
    /\ slot = Some(attempts[Len(attempts)] + 1)

\* The record unit i of the slot being processed inserts.
UnitRecord(i) ==
    [signature |-> fetch_futures[i].signature,
     slot |-> Unwrap(slot),
     block_hash |-> block.blockhash,
     timestamp |-> IF block.block_time = None THEN 0 ELSE Unwrap(block.block_time)]

UnitMoves ==
    {<<"get_transaction", "create">>, <<"get_transaction", "fetch_failed">>,
     <<"create", "stored">>, <<"create", "store_failed">>}

\* C9. Signature-level failure isolation. Within one slot a step of one unit
\* (its detail fetch or its insert returning, with success or failure) changes
\* no sibling unit; a unit whose signature parses, whose detail fetch succeeds
\* and whose insert succeeds has its record in the table; and join_all returns
\* only when every unit has ended.
C9_OneUnitMoves ==
    (pc = "join_all" /\ pc' = "join_all" /\ fetch_futures' # fetch_futures) =>
        \E i \in DOMAIN fetch_futures :
            /\ DOMAIN fetch_futures' = DOMAIN fetch_futures
            /\ \A j \in DOMAIN fetch_futures \ {i} : fetch_futures'[j] = fetch_futures[j]
            /\ fetch_futures'[i].signature = fetch_futures[i].signature
            /\ <<fetch_futures[i].st, fetch_futures'[i].st>> \in UnitMoves
            /\ transactions' = IF fetch_futures'[i].st = "stored"
                               THEN transactions (+) SetToBag({UnitRecord(i)})
                               ELSE transactions

C9_UnitsSound ==
    pc = "join_all" =>
        \A i \in DOMAIN fetch_futures :
            /\ fetch_futures[i].st = "invalid" <=>
                    fetch_futures[i].signature \notin ValidSignatures
            /\ fetch_futures[i].st = "stored" => BagIn(UnitRecord(i), transactions)

C9_JoinWaitsForAll ==
    (pc = "join_all" /\ pc' # "join_all") =>
        \A i \in DOMAIN fetch_futures :
            fetch_futures[i].st \in {"invalid", "fetch_failed", "store_failed", "stored"}

C9_SignatureFailureIsolated ==
    /\ []C9_UnitsSound
    /\ [][C9_OneUnitMoves]_vars
    /\ [][C9_JoinWaitsForAll]_vars

\* The first unit of a slot has failed in its detail fetch and its sibling has
\* been fetched and stored after that.
C9_Witness ==
    /\ pc = "join_all"
    /\ Len(fetch_futures) = 2
    /\ fetch_futures[1].st = "fetch_failed"
    /\ fetch_futures[2].st = "stored"
    /\ BagIn(UnitRecord(2), transactions)

\* The signatures of the block being processed and the number retained.
Listed == Unwrap(block.signatures)
Retained == IF Len(Listed) < tx_limit THEN Len(Listed) ELSE tx_limit

\* The units whose transaction-detail request has been issued.
Requested == {i \in DOMAIN fetch_futures : fetch_futures[i].st # "invalid"}

\* C10. Fan-out bound, as claimed: for a block with N signatures exactly
\* min(N, txLimit) transaction-detail requests are issued, for the first
\* min(N, txLimit) signatures of the list in order.
C10_FanOutBound ==
    pc = "join_all" =>
        /\ Cardinality(Requested) = Retained
        /\ \A i \in Requested : i <= Retained /\ fetch_futures[i].signature = Listed[i]

\* C10, amended. For a block with N signatures exactly min(N, txLimit) units are
\* launched, for the first min(N, txLimit) signatures of the list in order, and
\* a transaction-detail request is issued for each of them that parses as a
\* signature and for no other.
C10_FanOutBoundOfUnits ==
    pc = "join_all" =>
        /\ Len(fetch_futures) = Retained
        /\ \A i \in 1..Retained : fetch_futures[i].signature = Listed[i]
        /\ Requested = {i \in 1..Retained : Listed[i] \in ValidSignatures}

\* A block listing more signatures than tx_limit, cut to its first tx_limit.
C10_Witness ==
    /\ pc = "join_all"
    /\ Len(Listed) > tx_limit
    /\ Len(fetch_futures) = tx_limit
    /\ Requested # {}

\* A call of slot processing fails in this step: the block fetch, the parse of
\* a retained signature, a detail fetch or an insert.
BlockFetchFails == Len(attempts') > Len(attempts) /\ last_block' = "Err"
ParseFails ==
    pc = "get_block" /\ \E i \in DOMAIN fetch_futures' : fetch_futures'[i].st = "invalid"
UnitFails ==
    /\ pc = "join_all"
    /\ \E i \in DOMAIN fetch_futures \cap DOMAIN fetch_futures' :
        /\ fetch_futures[i].st \in Pending
        /\ fetch_futures'[i].st \in {"fetch_failed", "store_failed"}

\* run has returned an error.
ReturnedErr == IsSome(result) /\ result # Some("Ok(())")

\* C11. Error containment. A failing block fetch, signature parse, detail fetch
\* or insert does not leave its unit: the step in which it fails does not make
\* run return and keeps the loop inside the range or back in select!; the step
\* that ends a range sets the cursor to A + 1 whatever the calls of the range
\* returned; and run returns an error only from its setup, before any
\* notification is handled by the loop and before any block is fetched.
C11_FailureStaysInside ==
    (BlockFetchFails \/ ParseFails \/ UnitFails) =>
        /\ result' = None
        /\ pc' \in {"get_block", "join_all", "select"}
        /\ next_slot' = IF pc' = "select" THEN Some(A + 1) ELSE next_slot

C11_RangeEndsAtCursor ==
    (pc \in {"get_block", "join_all"} /\ pc' \notin {"get_block", "join_all"}) =>
        /\ pc' = "select"
        /\ result' = None
        /\ next_slot' = Some(A + 1)

C11_ErrOnlyFromSetup ==
    ReturnedErr =>
        /\ result \in {Some("Err(PubsubClient)"), Some("Err(FetchFailed)")}
        /\ pc = "stopped"
        /\ ~Handled /\ attempts = <<>> /\ cause = "none"
        /\ transactions \in InitialTables

C11_ErrorContainment ==
    /\ []C11_ErrOnlyFromSetup
    /\ [][C11_FailureStaysInside]_vars
    /\ [][C11_RangeEndsAtCursor]_vars

\* A range of two slots has been processed, the block fetch of its last slot
\* failed, and the loop is back in select! with the cursor at A + 1.
C11_Witness ==
    /\ Handled /\ A >= C
    /\ pc = "select"
    /\ Len(RangeAttempts) = 2
    /\ last_block = "Err"
    /\ next_slot = Some(A + 1)
    /\ result = None

\* The highest slot for which a block fetch has been issued in this run.
HighestAttempted ==
    CHOOSE m \in {attempts[i] : i \in 1..Len(attempts)} :
        \A i \in 1..Len(attempts) : attempts[i] <= m

\* C12. Cursor invariant. Whenever the loop waits in select! and a block fetch
\* has been issued in this run, the cursor is one plus the highest slot for
\* which a block fetch was issued, whatever notifications were handled.
C12_CursorInvariant ==
    (pc = "select" /\ attempts # <<>>) => next_slot = Some(HighestAttempted + 1)

\* C13. Total order of slot attempts. Over a whole run the slots for which a
\* block fetch is issued are strictly increasing, across notifications as
\* within one range: no slot is attempted twice and none after a higher one.
C13_AttemptsIncrease ==
    \A i, j \in 1..Len(attempts) : i < j => attempts[i] < attempts[j]

\* The units whose detail fetch or insert has not returned yet.
InFlight == {i \in DOMAIN fetch_futures : fetch_futures[i].st \in Pending}

\* C14. Join barrier. While a block fetch is in flight no unit is: units exist
\* only during the join_all of the one slot being processed; and the step that
\* issues the block fetch of the next slot of a range is taken only when no
\* unit of the current slot is pending, and leaves none behind.
C14_NoUnitBesideBlockFetch ==
    /\ pc # "join_all" => fetch_futures = <<>>
    /\ pc = "get_block" => InFlight = {} /\ IsSome(slot)
    /\ pc = "join_all" => IsSome(slot) /\ attempts[Len(attempts)] = Unwrap(slot)

C14_NextFetchAfterJoin ==
    (pc' = "get_block" /\ (pc # "get_block" \/ slot' # slot)) =>
        /\ InFlight = {}
        /\ fetch_futures' = <<>>
        /\ pc \in {"get_block", "join_all"} => slot' = Some(Unwrap(slot) + 1)

C14_JoinBarrier ==
    /\ []C14_NoUnitBesideBlockFetch
    /\ [][C14_NextFetchAfterJoin]_vars

\* The block fetch of slot k + 1 is in flight after a unit of slot k stored
\* the record of the second signature of its block.
C14_Witness ==
    /\ pc = "get_block"
    /\ Len(RangeAttempts) = 1
    /\ fetch_futures = <<>>
    /\ \E r \in BagToSet(transactions) :
        r.signature = "b" /\ r.slot + 1 = Unwrap(slot)

\* A step of fetch_range: a block fetch returns, a unit moves, the join returns.
RangeStep ==
    \/ GetBlockErr
    \/ GetBlockOk
    \/ \E i \in DOMAIN fetch_futures : GetTransactionDone(i)
    \/ \E i \in DOMAIN fetch_futures : CreateDone(i)
    \/ JoinAll

\* C15. Cooperative shutdown. While fetch_range runs a pending shutdown signal
\* is not looked at: every step leaves the signal in the channel and run
\* neither leaves the loop nor unsubscribes, the range goes on (its next step
\* is enabled), and it ends in select! with every slot of [C, A] attempted, no
\* unit left and the cursor at A + 1. The loop reacts to the signal only from
\* select!, after the range.
C15_RangeNotCancelled ==
    (channel = "signal" /\ pc \in {"get_block", "join_all"}) =>
        /\ channel' = "signal"
        /\ cause' = "none" /\ unsubscribed' = 0 /\ result' = None
        /\ pc' \in {"get_block", "join_all", "select"}
        /\ pc' = "select" =>
            /\ RangeAttempts' = Interval(C, A)
            /\ fetch_futures' = <<>>
            /\ next_slot' = Some(A + 1)

C15_SentInRange ==
    sent_in_range =>
        /\ Handled /\ ShutdownSent
        /\ ~Idle => /\ A >= C
                    /\ channel = "signal" /\ cause = "none" /\ unsubscribed = 0
                    /\ ENABLED RangeStep
        /\ (Idle /\ A >= C) =>
                /\ RangeAttempts = Interval(C, A)
                /\ fetch_futures = <<>>
                /\ next_slot = Some(A + 1)
        /\ cause = "shutdown" => unsubscribed = 1

C15_CooperativeShutdown ==
    /\ []C15_SentInRange
    /\ [][C15_RangeNotCancelled]_vars

\* The signal was sent during the only range of the run, a range of two
\* slots; both were attempted, the cursor advanced, and then the loop received
\* the signal, unsubscribed and returned.
C15_Witness ==
    /\ sent_in_range
    /\ cause = "shutdown" /\ pc = "stopped" /\ unsubscribed = 1
    /\ mark = 0 /\ Len(attempts) = 2
    /\ A >= C /\ RangeAttempts = Interval(C, A)
    /\ next_slot = Some(A + 1)

\* The record the code is to insert for signature sig of the block of slot s:
\* the signature, the slot, the block's hash, its block time or 0 without one.
ExpectedRecord(sig, s) ==
    [signature |-> sig,
     slot |-> s,
     block_hash |-> BlockhashOf(s),
     timestamp |-> IF IsSome(BlockTimeOf(s)) THEN 1000 + s ELSE 0]

\* The units whose insert has been issued.
InsertIssued(units) ==
    {i \in DOMAIN units : units[i].st \in {"create", "stored", "store_failed"}}

\* C16. Record creation. An insert is issued by a unit only in the step in
\* which its detail fetch returns with success, one insert for one fetch; a
\* unit whose signature does not parse or whose detail fetch failed never
\* issues one, and a failed block fetch issues none. The table changes only by
\* the insert of a unit succeeding, which adds one record: the unit's
\* signature, the slot being processed, that slot's block hash, and the block
\* time or 0 when the block has none.
C16_InsertPerFetch ==
    /\ pc = "join_all" /\ pc' = "join_all" =>
        \A i \in DOMAIN fetch_futures :
            /\ (i \in InsertIssued(fetch_futures') /\ i \notin InsertIssued(fetch_futures)) =>
                    /\ fetch_futures[i].st = "get_transaction"
                    /\ fetch_futures'[i].st = "create"
                    /\ InsertIssued(fetch_futures') = InsertIssued(fetch_futures) \cup {i}
            /\ fetch_futures[i].st \in {"invalid", "fetch_failed", "stored", "store_failed"} =>
                    fetch_futures'[i] = fetch_futures[i]
    /\ pc # "join_all" /\ pc' = "join_all" =>
            /\ last_block' = "Ok"
            /\ InsertIssued(fetch_futures') = {}
    /\ last_block' = "Err" => InsertIssued(fetch_futures') = {}

C16_OneRecordPerInsert ==
    transactions' # transactions =>
        /\ pc = "join_all" /\ last_block = "Ok"
        /\ \E i \in DOMAIN fetch_futures :
            /\ fetch_futures[i].st = "create"
            /\ fetch_futures'[i].st = "stored"
            /\ \A j \in DOMAIN fetch_futures \ {i} : fetch_futures'[j] = fetch_futures[j]
            /\ fetch_futures[i].signature \in ValidSignatures
            /\ transactions' = transactions (+)
                    SetToBag({ExpectedRecord(fetch_futures[i].signature, Unwrap(slot))})
        /\ BagCardinality(transactions') = BagCardinality(transactions) + 1

C16_RecordCreation ==
    /\ [][C16_InsertPerFetch]_vars
    /\ [][C16_OneRecordPerInsert]_vars

\* In a block without block time listing "x" and "a", the unit of "a" stored
\* its record with timestamp 0 and nothing was stored for "x".
C16_Witness ==
    /\ pc = "join_all"
    /\ Len(fetch_futures) = 2
    /\ fetch_futures[1].st = "invalid"
    /\ fetch_futures[2].st = "stored"
    /\ BlockTimeOf(Unwrap(slot)) = None
    /\ BagIn(ExpectedRecord("a", Unwrap(slot)), transactions)
    /\ \A r \in BagToSet(transactions) : r.signature # "x"

\* C17. Broadcast shutdown. One signal sent on the channel is for both
\* listeners: once it is sent each of the two receivers holds it or has
\* received it; the fetcher receiving it leaves the server's as it is and the
\* server receiving it leaves the fetcher's as it is; the server can receive
\* whenever it holds it, and the fetcher whenever it holds it and waits in
\* select!, in whichever order.
C17_BothHold ==
    /\ channel \in {"signal", "received"} <=> server \in {"signal", "received"}
    /\ server = "signal" => ENABLED ServerShutdownReceived
    /\ (channel = "signal" /\ pc = "select") => ENABLED ShutdownReceived
    /\ cause = "shutdown" => channel = "received"

C17_NotConsumedForTheOther ==
    /\ (channel = "signal" /\ channel' = "received") => server' = server
    /\ (server = "signal" /\ server' = "received") => channel' = channel
    /\ channel = "received" => channel' = "received"
    /\ server = "received" => server' = "received"

C17_BroadcastShutdown ==
    /\ []C17_BothHold
    /\ [][C17_NotConsumedForTheOther]_vars

\* Both listeners have received the one signal: the server has shut down on
\* it and the fetcher has left the loop on it and returned.
C17_Witness ==
    /\ channel = "received" /\ cause = "shutdown"
    /\ server = "received"
    /\ pc = "stopped"

\* C18. Unsubscribe on every return. Whenever run has returned after the
\* subscription was established (every return but the one of a failed
\* root_subscribe), unsubscribe has been called exactly once.
C18_UnsubscribedOnReturn ==
    (pc = "stopped" /\ result # Some("Err(PubsubClient)")) => unsubscribed = 1

\* C19. Shutdown is honoured. Once the shutdown signal has been sent while run
\* is running, run eventually returns (every call it awaits returning),
\* whether or not the stream delivers another notification.
C19_ShutdownTerminates ==
    (ShutdownSent /\ pc \in {"first", "select", "get_block", "join_all"})
        ~> (pc = "stopped")

\* The maximum-slot query of this run failed: it gave no slot although the
\* table held records (before the first block fetch the table is as it was at
\* startup).
QueryFailed ==
    /\ pc \notin {"subscribe", "recover"}
    /\ result # Some("Err(PubsubClient)")
    /\ latest = None
    /\ attempts = <<>>
    /\ BagToSet(transactions) # {}

\* C20. Failed maximum-slot query. A failure of the query is handled as an
\* empty table is: run does not return the store's error but waits for the
\* first notification (which it can take), seeds the cursor with that
\* notification's slot and enters the loop in select!.
C20_QueryFailureAsEmpty ==
    QueryFailed =>
        /\ result \in {None, Some("Err(FetchFailed)"), Some("Ok(())")}
        /\ pc = "first" =>
                /\ next_slot = None /\ result = None /\ first_slot = None
                /\ (~stream_ended /\ notifs < MaxNotifs) => ENABLED FirstNotification
        /\ result = Some("Err(FetchFailed)") => stream_ended /\ first_slot = None
        /\ pc \notin {"first", "stopped"} => IsSome(first_slot)
        /\ IsSome(first_slot) =>
                /\ notifs >= 1
                /\ (~Handled /\ pc = "select") => next_slot = first_slot

\* After a failed query on a table with records, the first notification has
\* seeded the cursor and the loop waits in select!.
C20_Witness ==
    /\ QueryFailed
    /\ pc = "select" /\ ~Handled
    /\ IsSome(first_slot) /\ next_slot = first_slot
    /\ result = None

====
